---- MODULE Spec2Model ----
(***************************************************************************)
(* Taskist-Desktop: the local task store (database.rs) and the CouchDB     *)
(* replication engine (sync.rs), with the sync commands of lib.rs.         *)
(*                                                                         *)
(* Option<T> is modelled as a sequence: None is <<>>, Some(x) is <<x>>.    *)
(* A revision string "<counter>-<hex>" is the record [num, sfx].           *)
(* Timestamps (milliseconds since epoch) are small naturals read from the  *)
(* wall clock `now`.                                                       *)
(***************************************************************************)
EXTENDS Integers, Sequences, FiniteSets, TLC

VARIABLES
    tasks,      \* table `tasks`: function from the stored ids to their rows
    cursor,     \* table `sync_state`: None or Some([last_seq, last_synced_at])
    now,        \* wall clock (Utc::now().timestamp_millis())
    pending,    \* toggle_task_completion calls between their read and their write
    remote,     \* the remote document store: function from doc ids to documents
    remoteSeq,  \* the remote's update sequence
    running,    \* SyncManager.running
    state,      \* SyncManager.state
    sink,       \* what the notification sink received
    loops,      \* the spawned background tasks, in spawn order
    calls,      \* start_sync / stop_sync calls in flight
    issued,     \* number of commands issued since Init
    emitSteps,  \* TRUE: each emit is a step of its own; FALSE: an emit is taken
                \* in the step of the write it follows (no await lies between
                \* them; the two views differ only in the order `sink` sees)
    hist        \* history: the last operation, and the initial data

vars == <<tasks, cursor, now, pending, remote, remoteSeq, running, state,
          sink, loops, calls, issued, emitSteps, hist>>

storeVars  == <<tasks, cursor, pending>>
remoteVars == <<remote, remoteSeq>>
syncVars == <<running, state, sink, loops, calls>>
engineVars == <<syncVars, issued>>

(* ---------------------------------------------------------------- bounds *)
MaxClock   == 2      \* the wall clock stops advancing here
MaxSeq     == 3      \* the remote refuses writes past this update sequence
MaxRev     == 3      \* revision counters of caller-supplied tasks
MaxLoops   == 2      \* background tasks spawned in one run
MaxCalls   == 2      \* commands issued in one run
MaxPending == 1      \* toggles between read and write at one time
MaxToggles == 2      \* the same, where only toggles run

(* ------------------------------------------------------------ data model *)
None == <<>>
Some(x) == <<x>>
IsSome(o) == Len(o) = 1
Unwrap(o) == o[1]
UnwrapOr(o, d) == IF Len(o) = 1 THEN o[1] ELSE d

TaskIds == {"t1", "t2"}
DesignId == "_design/app"
Titles == {"X", "Y"}
Suffixes == {"p"}

RevStr(n, s) == [num |-> n, sfx |-> s]

\* database.rs: the leading counter of a revision string, 0 when there is none
RevNum(rev) == IF IsSome(rev) THEN Unwrap(rev).num ELSE 0

Task(id, rev, title, description, completed, due_date, updated_at, order, deleted) ==
    [id |-> id, rev |-> rev, title |-> title, description |-> description,
     completed |-> completed, due_date |-> due_date, updated_at |-> updated_at,
     order |-> order, deleted |-> deleted]

Max(S) == CHOOSE x \in S : \A y \in S : y <= x

(* --------------------------------------------------------- database.rs *)

\* a variant: the maximum is taken over every row, soft-deleted ones included
MaxOrder_AllRows(ts) ==
    LET os == {ts[i].order : i \in DOMAIN ts}
    IN  IF os = {} THEN 0 ELSE Max(os)

\* SELECT COALESCE(MAX(task_order), 0) FROM tasks WHERE deleted = 0
MaxOrder(ts) ==
    LET os == {ts[i].order : i \in {j \in DOMAIN ts : ~ts[j].deleted}}
    IN  IF os = {} THEN 0 ELSE Max(os)

AddTask(ts, id, title, description, due_date, sfx, t) ==
    ts @@ (id :> Task(id, Some(RevStr(1, sfx)), title, description, FALSE,
                      due_date, t, MaxOrder(ts) + 1, FALSE))

\* the sequences a SELECT ... ORDER BY key ASC over the rows `ids` may return
\* (rows with equal keys come in any order)
Sorted(ts, ids, key(_)) ==
    {s \in [1..Cardinality(ids) -> ids] :
        /\ \A i, j \in DOMAIN s : i # j => s[i] # s[j]
        /\ \A i, j \in DOMAIN s : i < j => key(ts[s[i]]) <= key(ts[s[j]])}

OrderKey(r) == r.order
UpdatedKey(r) == r.updated_at

\* get_all_tasks: the non-deleted rows by ascending task_order
GetAllTasks(ts) ==
    {[i \in DOMAIN s |-> ts[s[i]]] :
        s \in Sorted(ts, {i \in DOMAIN ts : ~ts[i].deleted}, OrderKey)}

UpdateTask(ts, task, sfx, t) ==
    LET new_rev == Some(RevStr(RevNum(task.rev) + 1, sfx))
    IN  IF task.id \in DOMAIN ts
        THEN [ts EXCEPT ![task.id] = [task EXCEPT !.rev = new_rev, !.updated_at = t]]
        ELSE ts

\* a variant: the row is marked and its updated_at is left as it was
DeleteTask_NoTouch(ts, id, t) ==
    IF id \in DOMAIN ts
    THEN [ts EXCEPT ![id].deleted = TRUE]
    ELSE ts

DeleteTask(ts, id, t) ==
    IF id \in DOMAIN ts
    THEN [ts EXCEPT ![id].deleted = TRUE, ![id].updated_at = t]
    ELSE ts

\* index of id in the list of (id, task_order) pairs, 0 when absent
Position(list, id) ==
    IF \E i \in DOMAIN list : list[i].id = id
    THEN CHOOSE i \in DOMAIN list : list[i].id = id
    ELSE 0

\* a variant: the second row is given the value the first row holds after
\* the first UPDATE
SwapOrders_Lost(ts, a, b, order_a, order_b, t) ==
    LET first == [ts EXCEPT ![a].order = order_b, ![a].updated_at = t]
    IN  [first EXCEPT ![b].order = first[a].order, ![b].updated_at = t]

SwapOrders(ts, a, b, order_a, order_b, t) ==
    LET first == [ts EXCEPT ![a].order = order_b, ![a].updated_at = t]
    IN  [first EXCEPT ![b].order = order_a, ![b].updated_at = t]

\* reorder_task over the list its SELECT returned; Err("Task not found")
\* leaves the table unchanged
ReorderTask(ts, list, task_id, direction, t) ==
    LET current_index == Position(list, task_id)
        target_index  == IF direction = "up" THEN current_index - 1
                                             ELSE current_index + 1
    IN  IF current_index = 0 THEN ts
        ELSE IF direction = "up" /\ current_index = 1 THEN ts
        ELSE IF direction # "up" /\ current_index >= Len(list) THEN ts
        ELSE SwapOrders(ts, task_id, list[target_index].id,
                        list[current_index].order, list[target_index].order, t)

\* a variant: the dragged task takes the target's order and the target is
\* pushed one place down
MoveTaskToPosition_Insert(ts, list, task_id, target_task_id, t) ==
    LET current_index == Position(list, task_id)
        target_index  == Position(list, target_task_id)
    IN  IF current_index = 0 \/ target_index = 0 THEN ts
        ELSE IF current_index = target_index THEN ts
        ELSE SwapOrders(ts, task_id, target_task_id,
                        list[target_index].order + 1, list[target_index].order, t)

MoveTaskToPosition(ts, list, task_id, target_task_id, t) ==
    LET current_index == Position(list, task_id)
        target_index  == Position(list, target_task_id)
    IN  IF current_index = 0 \/ target_index = 0 THEN ts
        ELSE IF current_index = target_index THEN ts
        ELSE SwapOrders(ts, task_id, target_task_id,
                        list[current_index].order, list[target_index].order, t)

\* get_changes_since: every row with updated_at > since, by ascending updated_at
GetChangesSince(ts, since) ==
    {[i \in DOMAIN s |-> ts[s[i]]] :
        s \in Sorted(ts, {i \in DOMAIN ts : ts[i].updated_at > since}, UpdatedKey)}

\* a variant: the conflict clause compares with >=, so a tie overwrites
UpsertFromRemote_Tie(ts, task) ==
    IF task.id \notin DOMAIN ts THEN ts @@ (task.id :> task)
    ELSE IF task.updated_at >= ts[task.id].updated_at
         THEN [ts EXCEPT ![task.id] = task]
         ELSE ts

\* a variant: a remote write is applied like a local mutation, on ties too, and
\* stamps the next revision counter of the stored row
UpsertFromRemote_Bump(ts, task) ==
    IF task.id \notin DOMAIN ts THEN ts @@ (task.id :> task)
    ELSE IF task.updated_at >= ts[task.id].updated_at
         THEN [ts EXCEPT ![task.id] =
                 [task EXCEPT !.rev = Some(RevStr(RevNum(ts[task.id].rev) + 1, "r"))]]
         ELSE ts

\* INSERT ... ON CONFLICT(id) DO UPDATE SET <every column> = excluded.<column>
\*   WHERE excluded.updated_at > tasks.updated_at
UpsertFromRemote(ts, task) ==
    IF task.id \notin DOMAIN ts THEN ts @@ (task.id :> task)
    ELSE IF task.updated_at > ts[task.id].updated_at
         THEN [ts EXCEPT ![task.id] = task]
         ELSE ts

\* a variant: the stored cursor is never found
GetLastSyncSeq_None(c) == None

GetLastSyncSeq(c) == IF IsSome(c) THEN Some(Unwrap(c).last_seq) ELSE None

SetLastSyncSeq(c, seq, t) == Some([last_seq |-> seq, last_synced_at |-> t])


(* ------------------------------------------- the remote document store *)
(* A CouchDB database as sync.rs uses it: GET /{db}/{id}, PUT /{db}/{id}   *)
(* with optimistic concurrency on _rev, and GET /{db}/_changes.            *)

\* CouchDoc: _id, _rev, the flattened TaskData, _deleted
CouchDoc(id, rev, title, description, completed, due_date, updated_at, order, deleted) ==
    [id |-> id, rev |-> rev, title |-> title, description |-> description,
     completed |-> completed, due_date |-> due_date, updated_at |-> updated_at,
     order |-> order, deleted |-> deleted]

\* a document of the database that carries none of the TaskData fields: a
\* design document, or the tombstone a DELETE leaves
PlainDoc(id, rev, deleted) == [id |-> id, rev |-> rev, deleted |-> deleted]

\* GET /{db}/{id}: 200 with the document, 404 when absent or deleted
RemoteGet(rm, id) ==
    IF id \in DOMAIN rm /\ rm[id].doc.deleted # Some(TRUE)
    THEN [status |-> 200, doc |-> Some(rm[id].doc)]
    ELSE [status |-> 404, doc |-> None]

\* does the remote accept a write of `id` carrying version token `rev`?
RemoteAccepts(rm, id, rev) ==
    IF id \notin DOMAIN rm THEN rev = None
    ELSE IF rm[id].doc.deleted = Some(TRUE)
         THEN rev = None \/ rev = rm[id].doc.rev
         ELSE rev = rm[id].doc.rev

\* PUT /{db}/{id}: 201 and a new revision, or 409 on a stale version token
RemotePut(rm, seq, doc) ==
    IF RemoteAccepts(rm, doc.id, doc.rev)
    THEN LET n == IF doc.id \in DOMAIN rm THEN RevNum(rm[doc.id].doc.rev) ELSE 0
             stored == [doc EXCEPT !.rev = Some(RevStr(n + 1, "r"))]
             entry == [doc |-> stored, seq |-> seq + 1]
         IN  [status |-> 201, seq |-> seq + 1,
              rm |-> [i \in DOMAIN rm \cup {doc.id} |->
                         IF i = doc.id THEN entry ELSE rm[i]]]
    ELSE [status |-> 409, rm |-> rm, seq |-> seq]

\* GET /{db}/_changes?include_docs=true&since=<since>: one entry per document
\* changed after `since`, by ascending sequence, and the current last_seq
RemoteChanges(rm, seq, since) ==
    LET ids == {i \in DOMAIN rm : rm[i].seq > since}
        ord == CHOOSE s \in [1..Cardinality(ids) -> ids] :
                  /\ \A i, j \in DOMAIN s : i # j => s[i] # s[j]
                  /\ \A i, j \in DOMAIN s : i < j => rm[s[i]].seq < rm[s[j]].seq
    IN  [results |-> [k \in DOMAIN ord |->
                        [id |-> ord[k], seq |-> rm[ord[k]].seq,
                         doc |-> Some(rm[ord[k]].doc),
                         deleted |-> rm[ord[k]].doc.deleted]],
         last_seq |-> seq]

(* ----------------------------------------------------------- sync.rs *)

\* Deserialize for CouchDoc: title, completed, updatedAt and order are
\* required members of the flattened TaskData
ParsesAsCouchDoc(doc) ==
    {"title", "completed", "updated_at", "order"} \subseteq DOMAIN doc

\* Deserialize for ChangesResponse: every entry's doc is null, absent or a
\* CouchDoc
ParsesAsChanges(changes) ==
    \A k \in DOMAIN changes.results :
        \/ changes.results[k].doc = None
        \/ ParsesAsCouchDoc(Unwrap(changes.results[k].doc))

SyncState(status, last_synced, error, sync_mode) ==
    [status |-> status, last_synced |-> last_synced, error |-> error,
     sync_mode |-> sync_mode]

\* impl Default for SyncState
DefaultSyncState == SyncState("disabled", None, None, Some("local"))

\* sync taken to be enabled whenever a URL is configured
IsSyncEnabled_Url(settings) == settings.sync_url # ""

\* SyncSettings::is_sync_enabled
IsSyncEnabled(settings) == settings.sync_mode # "local"

\* history: the cycles begun so far, counted 0, 1, "2 or more"
Next2(n) == IF n < 2 THEN n + 1 ELSE 2

\* the spawned task at its first instruction
NewLoop(sync_mode) ==
    [pc |-> "connecting", sync_mode |-> sync_mode, last_synced |-> None,
     err |-> None, queue |-> <<>>, remote_rev |-> None, since |-> 0,
     changes |-> None, emit |-> None]

\* the document push_changes uploads for a local task
PushDoc(task, remote_rev) ==
    CouchDoc(task.id, remote_rev, task.title, task.description, task.completed,
             task.due_date, task.updated_at, task.order,
             IF task.deleted THEN Some(TRUE) ELSE None)

\* the Task pull_changes builds from a change-feed entry
PullTask(result) ==
    LET doc == Unwrap(result.doc)
    IN  Task(doc.id, doc.rev, doc.title, doc.description, doc.completed,
             doc.due_date, doc.updated_at, doc.order,
             UnwrapOr(result.deleted, FALSE) \/ UnwrapOr(doc.deleted, FALSE))

\* doc.id.starts_with("_design")
IsDesign(id) == id = DesignId


(* history: the operation of the last step and the table before it; the   *)
(* cycles begun; whether stop_sync was ever called; whether stop_sync has  *)
(* written its snapshot with no start_sync command after it; whether a     *)
(* PUT of the cycle was answered 409; whether stop_sync was called while  *)
(* a task was in the push phase of its current cycle                      *)
Note(op, pre) ==
    /\ hist' = [hist EXCEPT
                  !.op = op,
                  !.pre = pre,
                  !.cycles = IF op[1] = "L_SyncingWrite" THEN Next2(@) ELSE @,
                  !.stops = @ \/ op[1] = "stop_sync",
                 !.pushStop = IF op[1] = "L_SyncingWrite" THEN FALSE
                              ELSE IF op[1] = "stop_sync"
                              THEN \E i \in DOMAIN loops :
                                      loops[i].pc \in {"push_list", "push_get", "push_put"}
                              ELSE @,
                  !.conflict = IF op[1] = "L_SyncingWrite" THEN FALSE
                               ELSE IF op[1] = "L_PushPut" /\ op[4] = 409
                                    THEN TRUE ELSE @,
                  !.stopped = IF op[1] = "StopWrite" THEN TRUE
                              ELSE IF op[1] \in {"start_sync", "start_sync_err"}
                                   THEN FALSE ELSE @]
    /\ UNCHANGED emitSteps

Event(payload, data) == [payload |-> payload, data |-> data]

\* app_handle.emit("sync-state-changed", payload), then for data = TRUE
\* app_handle.emit("tasks-changed", ())
Deliver(ev) ==
    sink' = [state |-> Some(ev.payload),
             last |-> IF ev.data THEN "tasks-changed" ELSE "sync-state-changed"]

Ready(i) == i \in DOMAIN loops /\ loops[i].emit = None

\* *state.write().await = snapshot; app_handle.emit(...): the spawned task
\* goes on as `next`
LoopWrite(i, snapshot, next, data) ==
    /\ state' = snapshot
    /\ IF emitSteps
       THEN /\ loops' = [loops EXCEPT ![i] =
                           [next EXCEPT !.emit = Some(Event(snapshot, data))]]
            /\ UNCHANGED sink
       ELSE /\ loops' = [loops EXCEPT ![i] = next]
            /\ Deliver(Event(snapshot, data))

\* the spawned task at `pc` with its locals dropped
At(l, pc) == [l EXCEPT !.pc = pc, !.err = None, !.last_synced = None]

\* sync_cycle returned Err(msg)
CycleFails(i, msg) ==
    loops' = [loops EXCEPT ![i].pc = "err_read", ![i].err = Some(msg),
                           ![i].queue = <<>>, ![i].remote_rev = None,
                           ![i].changes = None, ![i].since = 0]

\* sync.rs:187-197
L_Connecting(i) ==
    /\ Ready(i) /\ loops[i].pc = "connecting"
    /\ LoopWrite(i, SyncState("connecting", None, None, Some(loops[i].sync_mode)),
                 At(loops[i], "ensure"), FALSE)
    /\ UNCHANGED <<storeVars, now, remoteVars, running, calls, issued>>
    /\ Note(<<"L_Connecting", i>>, <<>>)

\* the emit that follows each write of the snapshot
L_Emit(i) ==
    /\ i \in DOMAIN loops /\ loops[i].emit # None
    /\ Deliver(Unwrap(loops[i].emit))
    /\ loops' = [loops EXCEPT ![i].emit = None]
    /\ UNCHANGED <<storeVars, now, remoteVars, running, state, calls, issued>>
    /\ Note(<<"L_Emit", i>>, <<>>)

\* the ways the PUT of the database can end: 2xx, 412, the request not
\* sent or answered, any other status
EnsureOutcomes == {"created", "exists", "transport", "status"}

\* a check that takes 412 for a failure
EnsureDbExists_Strict(o) ==
    CASE o = "created"   -> None
      [] o = "transport" -> Some("Connection failed")
      [] OTHER           -> Some("Failed to create database")

\* ensure_db_exists: None for Ok(()), Some(e) for Err(e)
EnsureDbExists(o) ==
    CASE o \in {"created", "exists"} -> None
      [] o = "transport"              -> Some("Connection failed")
      [] OTHER                        -> Some("Failed to create database")

\* sync.rs:199-208
L_Ensure(i) ==
    /\ Ready(i) /\ loops[i].pc = "ensure"
    /\ \E o \in EnsureOutcomes :
         /\ IF EnsureDbExists(o) = None
            THEN /\ loops' = [loops EXCEPT ![i].pc = "loop_top"]
                 /\ UNCHANGED <<state, sink>>
            ELSE LoopWrite(i, SyncState("error", None, EnsureDbExists(o),
                                        Some(loops[i].sync_mode)),
                           At(loops[i], "clear_running"), FALSE)
         /\ Note(<<"L_Ensure", i, o>>, <<>>)
    /\ UNCHANGED <<storeVars, now, remoteVars, running, calls, issued>>

\* sync.rs:209-210
L_ClearRunning(i) ==
    /\ Ready(i) /\ loops[i].pc = "clear_running"
    /\ running' = FALSE
    /\ loops' = [loops EXCEPT ![i].pc = "exited"]
    /\ UNCHANGED <<storeVars, now, remoteVars, state, sink, calls, issued>>
    /\ Note(<<"L_ClearRunning", i>>, <<>>)

\* a loop that never looks at the flag
L_Top_NoCheck(i) ==
    /\ Ready(i) /\ loops[i].pc = "loop_top"
    /\ loops' = [loops EXCEPT ![i].pc = "syncing_read"]
    /\ UNCHANGED <<storeVars, now, remoteVars, running, state, sink, calls, issued>>
    /\ Note(<<"L_Top", i>>, <<>>)

\* sync.rs:215-217
L_Top(i) ==
    /\ Ready(i) /\ loops[i].pc = "loop_top"
    /\ loops' = [loops EXCEPT ![i].pc = IF running THEN "syncing_read" ELSE "exited"]
    /\ UNCHANGED <<storeVars, now, remoteVars, running, state, sink, calls, issued>>
    /\ Note(<<"L_Top", i>>, <<>>)

\* sync.rs:221
L_SyncingRead(i) ==
    /\ Ready(i) /\ loops[i].pc = "syncing_read"
    /\ loops' = [loops EXCEPT ![i].pc = "syncing_write",
                              ![i].last_synced = state.last_synced]
    /\ UNCHANGED <<storeVars, now, remoteVars, running, state, sink, calls, issued>>
    /\ Note(<<"L_SyncingRead", i>>, <<>>)

\* sync.rs:222-229
L_SyncingWrite(i) ==
    /\ Ready(i) /\ loops[i].pc = "syncing_write"
    /\ LoopWrite(i, SyncState("syncing", loops[i].last_synced, None,
                              Some(loops[i].sync_mode)),
                 At(loops[i], "push_list"), FALSE)
    /\ UNCHANGED <<storeVars, now, remoteVars, running, calls, issued>>
    /\ Note(<<"L_SyncingWrite", i>>, <<>>)

\* push_changes, sync.rs:331: the tasks to upload, or the query failing
L_PushList(i) ==
    /\ Ready(i) /\ loops[i].pc = "push_list"
    /\ \/ /\ \E list \in GetAllTasks(tasks) :
               loops' = [loops EXCEPT ![i].queue = list,
                                      ![i].pc = IF list = <<>> THEN "pull_since"
                                                               ELSE "push_get"]
          /\ Note(<<"L_PushList", i>>, <<>>)
       \/ /\ CycleFails(i, "DB error")
          /\ Note(<<"L_PushList", i, "db">>, <<>>)
    /\ UNCHANGED <<storeVars, now, remoteVars, running, state, sink, calls, issued>>

\* push_changes, sync.rs:335-348: fetch the remote counterpart's _rev
L_PushGet(i) ==
    /\ Ready(i) /\ loops[i].pc = "push_get"
    /\ LET task == Head(loops[i].queue)
           resp == RemoteGet(remote, task.id)
       IN  \E o \in {"reply", "status", "transport", "parse"} :
             /\ o = "parse" => resp.status = 200
             /\ CASE o = "transport" -> CycleFails(i, "Request failed")
                  [] o = "parse"     -> CycleFails(i, "Parse error")
                  [] o = "status"    ->
                       loops' = [loops EXCEPT ![i].pc = "push_put",
                                              ![i].remote_rev = None]
                  [] o = "reply"     ->
                       loops' = [loops EXCEPT ![i].pc = "push_put",
                                   ![i].remote_rev =
                                      IF resp.status = 200
                                      THEN Some(UnwrapOr(Unwrap(resp.doc).rev, RevStr(0, "")))
                                      ELSE None]
             /\ Note(<<"L_PushGet", i, o>>, <<>>)
    /\ UNCHANGED <<storeVars, now, remoteVars, running, state, sink, calls, issued>>

\* a push that takes every status but 2xx for a failure
PushPutResult_Strict(o, status) ==
    IF o = "transport" THEN Some("PUT failed")
    ELSE IF status # 201 THEN Some("PUT rejected")
    ELSE None

\* push_changes, sync.rs:370-377: what the PUT makes of the phase: Some(e)
\* for `return Err(e)`, None for going on; only the request failing is an
\* error, 409 is passed over and any other status is logged
PushPutResult(o, status) ==
    IF o = "transport" THEN Some("PUT failed") ELSE None

\* push_changes, sync.rs:350-378: upload the document
L_PushPut(i) ==
    /\ Ready(i) /\ loops[i].pc = "push_put"
    /\ LET task == Head(loops[i].queue)
           rest == Tail(loops[i].queue)
           put  == RemotePut(remote, remoteSeq, PushDoc(task, loops[i].remote_rev))
           next == [loops EXCEPT ![i].queue = rest, ![i].remote_rev = None,
                                 ![i].pc = IF rest = <<>> THEN "pull_since"
                                                          ELSE "push_get"]
       IN  \E o \in {"reply", "status", "transport"} :
             LET status == CASE o = "reply"  -> put.status
                             [] o = "status" -> 500
                             [] OTHER        -> 0
                 result == PushPutResult(o, status)
             IN  /\ o = "reply" => remoteSeq < MaxSeq
                 /\ IF o = "reply"
                    THEN remote' = put.rm /\ remoteSeq' = put.seq
                    ELSE UNCHANGED remoteVars
                 /\ IF result = None
                    THEN loops' = next
                    ELSE CycleFails(i, Unwrap(result))
                 /\ Note(<<"L_PushPut", i, o, status>>, <<>>)
    /\ UNCHANGED <<storeVars, now, running, state, sink, calls, issued>>

\* pull_changes, sync.rs:390-392: the stored cursor, "0" when there is none
\* and, by unwrap_or(None), when the query fails
L_PullSince(i) ==
    /\ Ready(i) /\ loops[i].pc = "pull_since"
    /\ \E o \in {"read", "db"} :
         LET seq == IF o = "db" THEN None ELSE GetLastSyncSeq(cursor)
         IN  /\ loops' = [loops EXCEPT ![i].pc = "pull_request",
                                       ![i].since = UnwrapOr(seq, 0)]
             /\ Note(<<"L_PullSince", i, o>>, <<>>)
    /\ UNCHANGED <<storeVars, now, remoteVars, running, state, sink, calls, issued>>

\* pull_changes, sync.rs:395-408: one batched request of the change feed
L_PullRequest(i) ==
    /\ Ready(i) /\ loops[i].pc = "pull_request"
    /\ \E o \in {"reply", "status", "transport", "parse"} :
         /\ CASE o = "transport" -> CycleFails(i, "Changes request failed")
              [] o = "status"    -> CycleFails(i, "Failed to fetch changes")
              [] o = "parse"     -> CycleFails(i, "Parse error")
              [] o = "reply"     ->
                   LET changes == RemoteChanges(remote, remoteSeq, loops[i].since)
                   IN  IF ParsesAsChanges(changes)
                       THEN loops' = [loops EXCEPT ![i].pc = "pull_apply",
                                                   ![i].changes = Some(changes)]
                       ELSE CycleFails(i, "Parse error")
         /\ Note(<<"L_PullRequest", i, o>>, <<>>)
    /\ UNCHANGED <<storeVars, now, remoteVars, running, state, sink, calls, issued>>

\* pull_changes, sync.rs:411-432: one entry of the batch
L_PullApply(i) ==
    /\ Ready(i) /\ loops[i].pc = "pull_apply"
    /\ Unwrap(loops[i].changes).results # <<>>
    /\ LET changes == Unwrap(loops[i].changes)
           result  == Head(changes.results)
           skip    == result.doc = None \/ IsDesign(Unwrap(result.doc).id)
       IN  \/ /\ loops' = [loops EXCEPT ![i].changes =
                             Some([changes EXCEPT !.results = Tail(changes.results)])]
              /\ tasks' = IF skip THEN tasks
                                  ELSE UpsertFromRemote(tasks, PullTask(result))
              /\ Note(IF skip THEN <<"L_PullApply", i, "skip">>
                              ELSE <<"upsert_from_remote", PullTask(result)>>,
                      IF skip THEN <<>> ELSE tasks)
           \/ /\ ~skip
              /\ CycleFails(i, "Upsert failed")
              /\ UNCHANGED tasks
              /\ Note(<<"L_PullApply", i, "db">>, <<>>)
    /\ UNCHANGED <<cursor, pending, now, remoteVars, running, state, sink, calls, issued>>

\* pull_changes, sync.rs:435: persist the feed's last_seq
L_PullSave(i) ==
    /\ Ready(i) /\ loops[i].pc = "pull_apply"
    /\ Unwrap(loops[i].changes).results = <<>>
    /\ \/ /\ cursor' = SetLastSyncSeq(cursor, Unwrap(loops[i].changes).last_seq, now)
          /\ loops' = [loops EXCEPT ![i].pc = "ok_write", ![i].changes = None,
                                    ![i].since = 0]
          /\ Note(<<"L_PullSave", i, "saved">>, <<>>)
       \/ /\ CycleFails(i, "Failed to save seq")
          /\ UNCHANGED cursor
          /\ Note(<<"L_PullSave", i, "db">>, <<>>)
    /\ UNCHANGED <<tasks, pending, now, remoteVars, running, state, sink, calls, issued>>

\* a variant: a cycle that returned Ok announces its status only
L_OkWrite_Silent(i) ==
    /\ Ready(i) /\ loops[i].pc = "ok_write"
    /\ LoopWrite(i, SyncState("paused", Some(now), None, Some(loops[i].sync_mode)),
                 At(loops[i], "sleep"), FALSE)
    /\ UNCHANGED <<storeVars, now, remoteVars, running, calls, issued>>
    /\ Note(<<"L_OkWrite", i>>, <<>>)

\* sync.rs:234-245
L_OkWrite(i) ==
    /\ Ready(i) /\ loops[i].pc = "ok_write"
    /\ LoopWrite(i, SyncState("paused", Some(now), None, Some(loops[i].sync_mode)),
                 At(loops[i], "sleep"), TRUE)
    /\ UNCHANGED <<storeVars, now, remoteVars, running, calls, issued>>
    /\ Note(<<"L_OkWrite", i>>, <<>>)

\* sync.rs:250
L_ErrRead(i) ==
    /\ Ready(i) /\ loops[i].pc = "err_read"
    /\ loops' = [loops EXCEPT ![i].pc = "err_write",
                              ![i].last_synced = state.last_synced]
    /\ UNCHANGED <<storeVars, now, remoteVars, running, state, sink, calls, issued>>
    /\ Note(<<"L_ErrRead", i>>, <<>>)

\* a failed cycle handled like a failed existence check
L_ErrWrite_Abort(i) ==
    /\ Ready(i) /\ loops[i].pc = "err_write"
    /\ LoopWrite(i, SyncState("error", None, loops[i].err,
                              Some(loops[i].sync_mode)),
                 At(loops[i], "clear_running"), FALSE)
    /\ UNCHANGED <<storeVars, now, remoteVars, running, calls, issued>>
    /\ Note(<<"L_ErrWrite", i>>, <<>>)

\* a variant: the Error snapshot of a failed cycle carries no message
L_ErrWrite_NoMessage(i) ==
    /\ Ready(i) /\ loops[i].pc = "err_write"
    /\ LoopWrite(i, SyncState("error", loops[i].last_synced, None,
                              Some(loops[i].sync_mode)), At(loops[i], "sleep"), FALSE)
    /\ UNCHANGED <<storeVars, now, remoteVars, running, calls, issued>>
    /\ Note(<<"L_ErrWrite", i>>, <<>>)

\* sync.rs:246-256
L_ErrWrite(i) ==
    /\ Ready(i) /\ loops[i].pc = "err_write"
    /\ LoopWrite(i, SyncState("error", loops[i].last_synced, loops[i].err,
                              Some(loops[i].sync_mode)), At(loops[i], "sleep"), FALSE)
    /\ UNCHANGED <<storeVars, now, remoteVars, running, calls, issued>>
    /\ Note(<<"L_ErrWrite", i>>, <<>>)

\* sync.rs:260
L_Sleep(i) ==
    /\ Ready(i) /\ loops[i].pc = "sleep"
    /\ loops' = [loops EXCEPT ![i].pc = "loop_top"]
    /\ UNCHANGED <<storeVars, now, remoteVars, running, state, sink, calls, issued>>
    /\ Note(<<"L_Sleep", i>>, <<>>)


(* ------------------------------------------------- the sync commands *)

\* the settings the encrypted storage hands to the sync commands
Settings ==
    [sync_mode : {"local", "selfhosted"}, sync_url : {"", "localhost:5984"}]

RemoveAt(s, c) == SubSeq(s, 1, c - 1) \o SubSeq(s, c + 1, Len(s))

NewCall(op, pc) ==
    [op |-> op, pc |-> pc, last_synced |-> None, sync_mode |-> None, emit |-> None]

\* a command writes the snapshot and emits it, and returns after the emit
CallWrite(rest, op, snapshot) ==
    /\ state' = snapshot
    /\ IF emitSteps
       THEN /\ calls' = Append(rest, [NewCall(op, "emit") EXCEPT
                                       !.emit = Some(Event(snapshot, FALSE))])
            /\ UNCHANGED sink
       ELSE /\ calls' = rest
            /\ Deliver(Event(snapshot, FALSE))

\* a start that spawns without looking at the flag
StartSync_NoCheck(settings) ==
    /\ Note(<<"start_sync", settings>>, <<>>)
    /\ IF ~IsSyncEnabled(settings)
       THEN /\ CallWrite(calls, "start_sync",
                         SyncState("disabled", None, None, Some(settings.sync_mode)))
            /\ UNCHANGED <<running, loops>>
       ELSE /\ Len(loops) < MaxLoops
            /\ running' = TRUE
            /\ loops' = Append(loops, NewLoop(settings.sync_mode))
            /\ UNCHANGED <<state, sink, calls>>

\* SyncManager::start_sync up to the spawn; the check and the set of the
\* flag are one critical section
StartSync(settings) ==
    /\ Note(<<"start_sync", settings>>, <<>>)
    /\ IF ~IsSyncEnabled(settings)
       THEN /\ CallWrite(calls, "start_sync",
                         SyncState("disabled", None, None, Some(settings.sync_mode)))
            /\ UNCHANGED <<running, loops>>
       ELSE IF running
       THEN UNCHANGED <<running, state, sink, loops, calls>>
       ELSE /\ Len(loops) < MaxLoops
            /\ running' = TRUE
            /\ loops' = Append(loops, NewLoop(settings.sync_mode))
            /\ UNCHANGED <<state, sink, calls>>

\* a variant: the command hands every configuration to the engine
Cmd_StartSync_NoUrlCheck(settings) ==
    /\ issued < MaxCalls
    /\ issued' = issued + 1
    /\ StartSync(settings)
    /\ UNCHANGED <<storeVars, now, remoteVars>>

\* the start_sync command of lib.rs: an empty URL is refused before the
\* engine is reached
Cmd_StartSync(settings) ==
    /\ issued < MaxCalls
    /\ issued' = issued + 1
    /\ IF settings.sync_url = ""
       THEN /\ Note(<<"start_sync_err">>, <<>>)
            /\ UNCHANGED <<running, state, sink, loops, calls>>
       ELSE StartSync(settings)
    /\ UNCHANGED <<storeVars, now, remoteVars>>

\* SyncManager::stop_sync, sync.rs:266
StopSync ==
    /\ issued < MaxCalls
    /\ issued' = issued + 1
    /\ running' = FALSE
    /\ calls' = Append(calls, NewCall("stop_sync", "read"))
    /\ UNCHANGED <<storeVars, now, remoteVars, state, sink, loops>>
    /\ Note(<<"stop_sync">>, <<>>)

\* sync.rs:268-275
StopRead(c) ==
    /\ c \in DOMAIN calls /\ calls[c].pc = "read"
    /\ calls' = [calls EXCEPT ![c].pc = "write",
                              ![c].last_synced = state.last_synced,
                              ![c].sync_mode = state.sync_mode]
    /\ UNCHANGED <<storeVars, now, remoteVars, running, state, sink, loops, issued>>
    /\ Note(<<"StopRead">>, <<>>)

\* sync.rs:276 and set_state, sync.rs:141
StopWrite(c) ==
    /\ c \in DOMAIN calls /\ calls[c].pc = "write"
    /\ CallWrite(RemoveAt(calls, c), "stop_sync",
                 SyncState("paused", calls[c].last_synced, None, calls[c].sync_mode))
    /\ UNCHANGED <<storeVars, now, remoteVars, running, loops, issued>>
    /\ Note(<<"StopWrite">>, <<>>)

\* the emit that ends start_sync (local-only) and stop_sync; the call returns
CallEmit(c) ==
    /\ c \in DOMAIN calls /\ calls[c].pc = "emit"
    /\ Deliver(Unwrap(calls[c].emit))
    /\ calls' = RemoveAt(calls, c)
    /\ UNCHANGED <<storeVars, now, remoteVars, running, state, loops, issued>>
    /\ Note(<<"CallEmit", calls[c].op>>, <<>>)

\* the wall clock advances
Tick ==
    /\ now < MaxClock
    /\ now' = now + 1
    /\ UNCHANGED <<storeVars, remoteVars, engineVars>>
    /\ Note(<<"Tick">>, <<>>)

(* ------------------------------------------------ the task commands *)

\* the Task objects the pull phase may hand to upsert_from_remote
RemoteTasks ==
    {Task(id, Some(RevStr(1, "r")), "X", None, FALSE, None, t, 1, FALSE) :
        id \in TaskIds, t \in 0..MaxClock}
    \cup
    {Task(id, Some(RevStr(2, "r")), "Y", Some("d"), TRUE, Some("2026-01-01"), t, 2, TRUE) :
        id \in TaskIds, t \in 0..MaxClock}

\* Uuid::now_v7(): an id no row has
FreshId == CHOOSE id \in TaskIds : id \notin DOMAIN tasks

Op_AddTask ==
    /\ \E id \in TaskIds : id \notin DOMAIN tasks
    /\ \E title \in Titles, sfx \in Suffixes :
         /\ tasks' = AddTask(tasks, FreshId, title, None, None, sfx, now)
         /\ Note(<<"add_task", FreshId>>, tasks)
    /\ UNCHANGED <<cursor, pending, now, remoteVars, syncVars>>

Op_UpsertFromRemote ==
    /\ \E task \in RemoteTasks :
         /\ tasks' = UpsertFromRemote(tasks, task)
         /\ Note(<<"upsert_from_remote", task>>, tasks)
    /\ UNCHANGED <<cursor, pending, now, remoteVars, syncVars>>

Op_DeleteTask ==
    /\ \E id \in TaskIds :
         /\ tasks' = DeleteTask(tasks, id, now)
         /\ Note(<<"delete_task", id>>, tasks)
    /\ UNCHANGED <<cursor, pending, now, remoteVars, syncVars>>

\* the Task objects a caller of update_task supplies for `id`: the row it
\* last saw, edited, with the revision it holds (possibly none)
CallerTasks(id) ==
    LET base == IF id \in DOMAIN tasks THEN tasks[id]
                ELSE Task(id, None, "X", None, FALSE, None, 0, 1, FALSE)
    IN  {[base EXCEPT !.title = title, !.rev = rev, !.order = order] :
            title \in Titles, rev \in {base.rev, None}, order \in {base.order, 1}}

Op_UpdateTask ==
    /\ \E id \in TaskIds, sfx \in Suffixes :
         \E task \in CallerTasks(id) :
            /\ RevNum(task.rev) < MaxRev
            /\ tasks' = UpdateTask(tasks, task, sfx, now)
            /\ Note(<<"update_task", task>>, tasks)
    /\ UNCHANGED <<cursor, pending, now, remoteVars, syncVars>>

\* toggle_task_completion, database.rs:192-214: the read, then the lock is dropped
ToggleRead(max) ==
    /\ Len(pending) < max
    /\ \E id \in DOMAIN tasks :
         /\ pending' = Append(pending, tasks[id])
         /\ Note(<<"toggle_read", id>>, <<>>)
    /\ UNCHANGED <<tasks, cursor, now, remoteVars, syncVars>>

Op_ToggleRead == ToggleRead(MaxPending)

\* a variant: the row is read again under the lock of the write, and it is
\* that row which is flipped and stored
Op_ToggleWrite_Atomic ==
    /\ \E k \in DOMAIN pending, sfx \in Suffixes :
         LET row  == tasks[pending[k].id]
             task == [row EXCEPT !.completed = ~row.completed]
         IN  /\ RevNum(task.rev) < MaxRev
             /\ tasks' = UpdateTask(tasks, task, sfx, now)
             /\ pending' = RemoveAt(pending, k)
             /\ Note(<<"toggle_write", task>>, tasks)
    /\ UNCHANGED <<cursor, now, remoteVars, syncVars>>

\* toggle_task_completion, database.rs:216-217: flip and update_task
Op_ToggleWrite ==
    /\ \E k \in DOMAIN pending, sfx \in Suffixes :
         LET task == [pending[k] EXCEPT !.completed = ~pending[k].completed]
         IN  /\ RevNum(task.rev) < MaxRev
             /\ tasks' = UpdateTask(tasks, task, sfx, now)
             /\ pending' = RemoveAt(pending, k)
             /\ Note(<<"toggle_write", task>>, tasks)
    /\ UNCHANGED <<cursor, now, remoteVars, syncVars>>

Op_ReorderTask ==
    /\ \E id \in TaskIds \cup DOMAIN tasks, direction \in {"up", "down"} :
         \E list \in GetAllTasks(tasks) :
            /\ tasks' = ReorderTask(tasks, list, id, direction, now)
            /\ Note(<<"reorder_task", id, direction>>, tasks)
    /\ UNCHANGED <<cursor, pending, now, remoteVars, syncVars>>

Op_MoveTaskToPosition ==
    /\ \E id \in TaskIds \cup DOMAIN tasks, target \in TaskIds \cup DOMAIN tasks :
         \E list \in GetAllTasks(tasks) :
            /\ tasks' = MoveTaskToPosition(tasks, list, id, target, now)
            /\ Note(<<"move_task_to_position", id, target>>, tasks)
    /\ UNCHANGED <<cursor, pending, now, remoteVars, syncVars>>

(* -------------------------------------------------- specifications *)

InitEngine ==
    /\ running = FALSE
    /\ state = DefaultSyncState
    /\ sink = [state |-> None, last |-> "none"]
    /\ loops = <<>>
    /\ calls = <<>>
    /\ issued = 0
    /\ emitSteps = FALSE

\* the task store under create, soft delete and remote upserts, from the
\* empty table
InitStore ==
    /\ tasks = <<>>
    /\ cursor = None
    /\ now = 0
    /\ pending = <<>>
    /\ remote = <<>>
    /\ remoteSeq = 0
    /\ InitEngine
    /\ hist = [op |-> <<"init">>, pre |-> <<>>, tasks0 |-> <<>>, remote0 |-> <<>>,
               cycles |-> 0, stops |-> FALSE, stopped |-> FALSE, conflict |-> FALSE,
               pushStop |-> FALSE]

NextStore ==
    \/ Op_AddTask /\ UNCHANGED issued
    \/ Op_UpsertFromRemote /\ UNCHANGED issued
    \/ Op_DeleteTask /\ UNCHANGED issued
    \/ Tick

SpecStore == InitStore /\ [][NextStore]_vars


\* the task store under the two reordering commands, from any table of up to
\* three rows: creates and remote upserts leave rows with any orders, equal
\* ones included, and soft deletes leave rows that are not listed; the wall
\* clock stands still, later than every row's last write
OrderIds == TaskIds \cup {"t3"}

\* the largest task_order a row starts with
MaxOrderAtInit == 3

OrderRows(id) ==
    {Task(id, Some(RevStr(1, "p")), "X", None, FALSE, None, 0, order, deleted) :
        order \in 1..MaxOrderAtInit, deleted \in BOOLEAN}

InitOrder ==
    /\ \E S \in SUBSET OrderIds :
         tasks \in {f \in [S -> UNION {OrderRows(i) : i \in S}] :
                        \A i \in S : f[i] \in OrderRows(i)}
    /\ cursor = None
    /\ now = 1
    /\ pending = <<>>
    /\ remote = <<>>
    /\ remoteSeq = 0
    /\ InitEngine
    /\ hist = [op |-> <<"init">>, pre |-> <<>>, tasks0 |-> tasks, remote0 |-> <<>>,
               cycles |-> 0, stops |-> FALSE, stopped |-> FALSE, conflict |-> FALSE,
               pushStop |-> FALSE]

NextOrder ==
    \/ Op_ReorderTask /\ UNCHANGED issued
    \/ Op_MoveTaskToPosition /\ UNCHANGED issued

SpecOrder == InitOrder /\ [][NextOrder]_vars

\* the task list under the commands that create, delete, toggle and reorder
\* tasks, from the empty table: the commands of lib.rs are async and share
\* the read lock of the application state, so any of them can run between
\* the read and the write of a toggle_task_completion; the wall clock stands
\* still
InitList ==
    /\ tasks = <<>>
    /\ cursor = None
    /\ now = 0
    /\ pending = <<>>
    /\ remote = <<>>
    /\ remoteSeq = 0
    /\ InitEngine
    /\ hist = [op |-> <<"init">>, pre |-> <<>>, tasks0 |-> <<>>, remote0 |-> <<>>,
               cycles |-> 0, stops |-> FALSE, stopped |-> FALSE, conflict |-> FALSE,
               pushStop |-> FALSE]

NextList ==
    \/ Op_AddTask /\ UNCHANGED issued
    \/ Op_DeleteTask /\ UNCHANGED issued
    \/ Op_ToggleRead /\ UNCHANGED issued
    \/ Op_ToggleWrite /\ UNCHANGED issued
    \/ Op_ReorderTask /\ UNCHANGED issued
    \/ Op_MoveTaskToPosition /\ UNCHANGED issued

SpecList == InitList /\ [][NextList]_vars

\* one sync session, from the moment start_sync has spawned its task, against
\* a remote that other devices have written to; the wall clock stands still
LocalRow(id, deleted) ==
    Task(id, Some(RevStr(1, "p")), "X", None, FALSE, None, 1,
         IF id = "t1" THEN 1 ELSE 2, deleted)

OtherDeviceDoc(id, updated_at, deleted) ==
    CouchDoc(id, Some(RevStr(1, "r")), "Y", Some("d"), TRUE, Some("2026-01-01"),
             updated_at, 2, deleted)

Tables(choices(_)) ==
    UNION {{f \in [S -> UNION {choices(i) : i \in S}] : \A i \in S : f[i] \in choices(i)} :
              S \in SUBSET TaskIds}

LocalChoices(id) ==
    IF id = "t1" THEN {LocalRow(id, FALSE), LocalRow(id, TRUE)}
                 ELSE {LocalRow(id, FALSE)}

RemoteChoices(id) ==
    IF id = "t1" THEN {OtherDeviceDoc(id, 2, None), OtherDeviceDoc(id, 2, Some(TRUE)),
                       OtherDeviceDoc(id, 0, None)}
                 ELSE {OtherDeviceDoc(id, 2, None)}

IdRank(id) == IF id = "t1" THEN 1 ELSE 2

\* the documents `docs` as the remote holds them, written in id order
RemoteOf(docs) ==
    [i \in DOMAIN docs |->
        [doc |-> docs[i],
         seq |-> Cardinality({j \in DOMAIN docs : IdRank(j) <= IdRank(i)})]]

SelfHosted == [sync_mode |-> "selfhosted", sync_url |-> "localhost:5984"]

InitCycle ==
    /\ tasks \in Tables(LocalChoices)
    /\ cursor = None
    /\ now = 1
    /\ pending = <<>>
    /\ \E docs \in Tables(RemoteChoices) :
         /\ remote = RemoteOf(docs)
         /\ remoteSeq = Cardinality(DOMAIN docs)
    /\ running = TRUE
    /\ state = DefaultSyncState
    /\ sink = [state |-> None, last |-> "none"]
    /\ loops = <<NewLoop("selfhosted")>>
    /\ calls = <<>>
    /\ issued = 0
    /\ emitSteps = FALSE
    /\ hist = [op |-> <<"start_sync", SelfHosted>>, pre |-> <<>>,
               tasks0 |-> tasks, remote0 |-> remote, cycles |-> 0,
               stops |-> FALSE, stopped |-> FALSE, conflict |-> FALSE,
               pushStop |-> FALSE]

LoopNext ==
    \/ \E i \in DOMAIN loops : L_Connecting(i)
    \/ \E i \in DOMAIN loops : L_Ensure(i)
    \/ \E i \in DOMAIN loops : L_ClearRunning(i)
    \/ \E i \in DOMAIN loops : L_Top(i)
    \/ \E i \in DOMAIN loops : L_SyncingRead(i)
    \/ \E i \in DOMAIN loops : L_SyncingWrite(i)
    \/ \E i \in DOMAIN loops : L_PushList(i)
    \/ \E i \in DOMAIN loops : L_PushGet(i)
    \/ \E i \in DOMAIN loops : L_PushPut(i)
    \/ \E i \in DOMAIN loops : L_PullSince(i)
    \/ \E i \in DOMAIN loops : L_PullRequest(i)
    \/ \E i \in DOMAIN loops : L_PullApply(i)
    \/ \E i \in DOMAIN loops : L_PullSave(i)
    \/ \E i \in DOMAIN loops : L_OkWrite(i)
    \/ \E i \in DOMAIN loops : L_ErrRead(i)
    \/ \E i \in DOMAIN loops : L_ErrWrite(i)
    \/ \E i \in DOMAIN loops : L_Sleep(i)

\* the emits, where they are steps of their own
EmitNext ==
    \/ \E i \in DOMAIN loops : L_Emit(i)
    \/ \E c \in DOMAIN calls : CallEmit(c)

NextCycle ==
    \/ LoopNext

SpecCycle == InitCycle /\ [][NextCycle]_vars

\* one sync session of a device whose table is empty, against a remote that
\* holds a deleted document t1, a live document t2 and possibly a design
\* document; the wall clock stands still
Tombstones ==
    {OtherDeviceDoc("t1", 2, Some(TRUE)), PlainDoc("t1", Some(RevStr(2, "r")), Some(TRUE))}

DesignDocs ==
    {PlainDoc(DesignId, Some(RevStr(1, "r")), None), OtherDeviceDoc(DesignId, 2, None)}

InitFeed ==
    /\ tasks = <<>>
    /\ cursor = None
    /\ now = 1
    /\ pending = <<>>
    /\ \E tomb \in Tombstones, design \in {None} \cup {Some(d) : d \in DesignDocs} :
         LET docs == ("t1" :> [doc |-> tomb, seq |-> 1])
                     @@ ("t2" :> [doc |-> OtherDeviceDoc("t2", 2, None), seq |-> 2])
         IN  IF design = None
             THEN remote = docs /\ remoteSeq = 2
             ELSE /\ remote = docs @@ (DesignId :> [doc |-> Unwrap(design), seq |-> 3])
                  /\ remoteSeq = 3
    /\ running = TRUE
    /\ state = DefaultSyncState
    /\ sink = [state |-> None, last |-> "none"]
    /\ loops = <<NewLoop("selfhosted")>>
    /\ calls = <<>>
    /\ issued = 0
    /\ emitSteps = FALSE
    /\ hist = [op |-> <<"start_sync", SelfHosted>>, pre |-> <<>>,
               tasks0 |-> tasks, remote0 |-> remote, cycles |-> 0,
               stops |-> FALSE, stopped |-> FALSE, conflict |-> FALSE,
               pushStop |-> FALSE]

SpecFeed == InitFeed /\ [][NextCycle]_vars

\* two stored tasks under toggle_task_completion commands that run at the
\* same time, with no sync session
InitToggle ==
    /\ tasks = ("t1" :> LocalRow("t1", FALSE)) @@ ("t2" :> LocalRow("t2", FALSE))
    /\ cursor = None
    /\ now = 1
    /\ pending = <<>>
    /\ remote = <<>>
    /\ remoteSeq = 0
    /\ InitEngine
    /\ hist = [op |-> <<"init">>, pre |-> <<>>, tasks0 |-> tasks, remote0 |-> <<>>,
               cycles |-> 0, stops |-> FALSE, stopped |-> FALSE, conflict |-> FALSE,
               pushStop |-> FALSE]

NextToggle ==
    \/ ToggleRead(MaxToggles) /\ UNCHANGED issued
    \/ Op_ToggleWrite /\ UNCHANGED issued
    \/ Tick

SpecToggle == InitToggle /\ [][NextToggle]_vars

\* the replication engine under the sync commands, with one local task and
\* a remote that holds an older document of it and accepts no write; the
\* wall clock stands still and the cycles are not counted
InitEngineSpec ==
    /\ tasks = ("t1" :> LocalRow("t1", FALSE))
    /\ cursor = None
    /\ now = 0
    /\ pending = <<>>
    /\ remote = ("t1" :> [doc |-> OtherDeviceDoc("t1", 0, None), seq |-> 1])
    /\ remoteSeq = MaxSeq
    /\ InitEngine
    /\ hist = [op |-> <<"init">>, pre |-> <<>>, tasks0 |-> tasks, remote0 |-> remote,
               cycles |-> 2, stops |-> FALSE, stopped |-> FALSE, conflict |-> FALSE,
               pushStop |-> FALSE]

CallNext ==
    \/ \E settings \in Settings : Cmd_StartSync(settings)
    \/ StopSync
    \/ \E c \in DOMAIN calls : StopRead(c)
    \/ \E c \in DOMAIN calls : StopWrite(c)

NextEngine ==
    \/ CallNext
    \/ LoopNext

SpecEngine == InitEngineSpec /\ [][NextEngine]_vars

\* one sync session from the moment start_sync has spawned its task, with
\* stop_sync the only command that follows.  The runtime keeps scheduling
\* the spawned task and the pending calls, and every network call and sleep
\* returns: each of them that can take a step eventually takes one.
InitSession ==
    /\ tasks = ("t1" :> LocalRow("t1", FALSE))
    /\ cursor = None
    /\ now = 0
    /\ pending = <<>>
    /\ remote = ("t1" :> [doc |-> OtherDeviceDoc("t1", 0, None), seq |-> 1])
    /\ remoteSeq = MaxSeq
    /\ running = TRUE
    /\ state = DefaultSyncState
    /\ sink = [state |-> None, last |-> "none"]
    /\ loops = <<NewLoop("selfhosted")>>
    /\ calls = <<>>
    /\ issued = 0
    /\ emitSteps = FALSE
    /\ hist = [op |-> <<"start_sync", SelfHosted>>, pre |-> <<>>,
               tasks0 |-> tasks, remote0 |-> remote, cycles |-> 0,
               stops |-> FALSE, stopped |-> FALSE, conflict |-> FALSE,
               pushStop |-> FALSE]

LoopStep(i) ==
    \/ L_Connecting(i) \/ L_Ensure(i) \/ L_ClearRunning(i) \/ L_Top(i)
    \/ L_SyncingRead(i) \/ L_SyncingWrite(i) \/ L_PushList(i) \/ L_PushGet(i)
    \/ L_PushPut(i) \/ L_PullSince(i) \/ L_PullRequest(i) \/ L_PullApply(i)
    \/ L_PullSave(i) \/ L_OkWrite(i) \/ L_ErrRead(i) \/ L_ErrWrite(i)
    \/ L_Sleep(i)

CallStep == \E c \in DOMAIN calls : StopRead(c) \/ StopWrite(c)

NextSession ==
    \/ StopSync
    \/ \E c \in DOMAIN calls : StopRead(c)
    \/ \E c \in DOMAIN calls : StopWrite(c)
    \/ LoopNext

\* the same session under every sync command
SpecRestart == InitSession /\ [][NextEngine]_vars

\* a command of lib.rs, counted
Counted(Op) ==
    /\ issued < MaxCalls
    /\ issued' = issued + 1
    /\ Op

\* a session against a remote that accepts writes and holds a document of
\* t1 another device has written with its clock ahead, while the user edits
\* the task list: every task command of lib.rs can run between any two
\* steps of the spawned task
InitDevice ==
    /\ tasks = ("t1" :> LocalRow("t1", FALSE))
    /\ cursor = None
    /\ now = 1
    /\ pending = <<>>
    /\ remote = ("t1" :> [doc |-> OtherDeviceDoc("t1", 2, None), seq |-> 1])
    /\ remoteSeq = MaxSeq - 1
    /\ running = TRUE
    /\ state = DefaultSyncState
    /\ sink = [state |-> None, last |-> "none"]
    /\ loops = <<NewLoop("selfhosted")>>
    /\ calls = <<>>
    /\ issued = 0
    /\ emitSteps = FALSE
    /\ hist = [op |-> <<"start_sync", SelfHosted>>, pre |-> <<>>,
               tasks0 |-> tasks, remote0 |-> remote, cycles |-> 0,
               stops |-> FALSE, stopped |-> FALSE, conflict |-> FALSE,
               pushStop |-> FALSE]

NextDevice ==
    \/ Counted(Op_AddTask)
    \/ Counted(Op_UpdateTask)
    \/ Counted(Op_DeleteTask)
    \/ Counted(Op_ToggleRead)
    \/ Op_ToggleWrite /\ UNCHANGED issued
    \/ Counted(Op_ReorderTask)
    \/ Counted(Op_MoveTaskToPosition)
    \/ LoopNext

SpecDevice == InitDevice /\ [][NextDevice]_vars

SpecSession ==
    /\ InitSession
    /\ [][NextSession]_vars
    /\ WF_vars(CallStep)
    /\ \A i \in 1..MaxLoops : WF_vars(LoopStep(i))

\* the session of InitSession with stop_sync the only command, where the write of the
\* snapshot and the emit that follows it are two steps: the write guard is
\* dropped at the end of the assignment, before app_handle.emit is called
InitEmit ==
    /\ tasks = ("t1" :> LocalRow("t1", FALSE))
    /\ cursor = None
    /\ now = 0
    /\ pending = <<>>
    /\ remote = ("t1" :> [doc |-> OtherDeviceDoc("t1", 0, None), seq |-> 1])
    /\ remoteSeq = MaxSeq
    /\ running = TRUE
    /\ state = DefaultSyncState
    /\ sink = [state |-> None, last |-> "none"]
    /\ loops = <<NewLoop("selfhosted")>>
    /\ calls = <<>>
    /\ issued = 0
    /\ emitSteps = TRUE
    /\ hist = [op |-> <<"start_sync", SelfHosted>>, pre |-> <<>>,
               tasks0 |-> tasks, remote0 |-> remote, cycles |-> 0,
               stops |-> FALSE, stopped |-> FALSE, conflict |-> FALSE,
               pushStop |-> FALSE]

NextEmit ==
    \/ NextSession
    \/ EmitNext

SpecEmit == InitEmit /\ [][NextEmit]_vars

(* ------------------------------------------------------------ claims *)

\* the spawned tasks that have not returned
LiveLoops == {i \in DOMAIN loops : loops[i].pc # "exited"}

IsUpsert(h) == h.op[1] = "upsert_from_remote"

SameFields(row, task) ==
    /\ row.rev = task.rev
    /\ row.title = task.title
    /\ row.description = task.description
    /\ row.completed = task.completed
    /\ row.due_date = task.due_date
    /\ row.updated_at = task.updated_at
    /\ row.order = task.order
    /\ row.deleted = task.deleted

\* C2: every step upsert_from_remote(t) takes follows the conflict rule: an
\* absent id is inserted; a stored row is replaced field by field when
\* t.updated_at is strictly greater than the stored updated_at; otherwise
\* (ties included) the table is left as it was.  No other row changes.
C2_UpsertRule ==
    [][IsUpsert(hist') =>
        LET t == hist'.op[2] IN
        /\ \A j \in DOMAIN tasks : j # t.id => j \in DOMAIN tasks' /\ tasks'[j] = tasks[j]
        /\ DOMAIN tasks' = DOMAIN tasks \cup {t.id}
        /\ t.id \notin DOMAIN tasks => SameFields(tasks'[t.id], t)
        /\ (t.id \in DOMAIN tasks /\ t.updated_at > tasks[t.id].updated_at)
              => SameFields(tasks'[t.id], t)
        /\ (t.id \in DOMAIN tasks /\ tasks[t.id].updated_at >= t.updated_at)
              => tasks' = tasks]_vars

\* C2 witness: a stored row was overwritten by a strictly newer remote task
\* that differs from it in every field
C2_Witness ==
    /\ IsUpsert(hist)
    /\ LET t == hist.op[2] IN
       /\ t.id \in DOMAIN hist.pre
       /\ t.updated_at > hist.pre[t.id].updated_at
       /\ hist.pre[t.id].title # t.title
       /\ hist.pre[t.id].rev # t.rev
       /\ hist.pre[t.id].deleted # t.deleted
       /\ hist.pre[t.id].order # t.order
       /\ tasks[t.id] = t

\* C3: after upsert_from_remote(t) has been applied, applying it again to the
\* resulting table changes nothing
C3_UpsertIdempotent ==
    IsUpsert(hist) => UpsertFromRemote(tasks, hist.op[2]) = tasks

\* C3 witness: the first application changed the table (an insert or an
\* overwrite), so the second is applied to a different table than the first
C3_Witness ==
    /\ IsUpsert(hist)
    /\ hist.pre # tasks
    /\ hist.op[2].id \in DOMAIN hist.pre


\* the local task t1 (updatedAt 1, title X) and the remote document t1
\* (updatedAt 2, title Y) of the end-to-end scenario
C1_Scenario ==
    /\ "t1" \in DOMAIN hist.tasks0
    /\ hist.tasks0["t1"] = LocalRow("t1", FALSE)
    /\ "t1" \in DOMAIN hist.remote0
    /\ hist.remote0["t1"].doc = OtherDeviceDoc("t1", 2, None)

\* the first cycle of the first session has returned Ok
FirstCycleDone ==
    /\ Len(loops) >= 1
    /\ loops[1].pc = "ok_write"
    /\ hist.cycles = 1

\* C1: with local t1 at updatedAt 1 / title X and remote t1 at updatedAt 2 /
\* title Y, after one complete sync cycle (push, then pull) the local row has
\* the remote's title and updatedAt
C1_LastWriteWins ==
    (C1_Scenario /\ FirstCycleDone) =>
        /\ tasks["t1"].title = "Y"
        /\ tasks["t1"].updated_at = 2


\* a start_sync with a sync-enabled configuration: launches nothing and
\* changes nothing when the flag is set, launches one task otherwise
C4_Step ==
    \A s \in Settings :
        (hist'.op = <<"start_sync", s>> /\ s.sync_mode # "local") =>
            IF running
            THEN /\ loops' = loops
                 /\ state' = state
                 /\ sink' = sink
                 /\ running' = running
            ELSE /\ Len(loops') = Len(loops) + 1
                 /\ running'

\* C4: a start with a sync-enabled configuration that finds a session
\* running returns without launching a task and without changing the status
\* or the flag; as long as stop was never called, at most one spawned task
\* is alive whatever the number of starts
C4_SingleFlight ==
    /\ [][C4_Step]_vars
    /\ [](~hist.stops => Cardinality(LiveLoops) <= 1)

\* C4 witness: a second sync-enabled start has returned while the task of
\* the first was already past its first write, and no stop was called
C4_Witness ==
    /\ hist.op[1] = "start_sync"
    /\ hist.op[2].sync_mode # "local"
    /\ ~hist.stops
    /\ running
    /\ Len(loops) = 1
    /\ loops[1].pc \notin {"connecting", "exited"}

\* C5: a task that a later start has superseded (its session was stopped
\* before that start) exits at its next check of the flag: it never passes
\* from the top of its loop into another cycle
C5_OldLoopExits ==
    [][\A i \in DOMAIN loops :
          (i < Len(loops) /\ loops[i].pc = "loop_top")
              => loops'[i].pc # "syncing_read"]_vars

\* a start_sync with the local-only configuration
C6_Step ==
    \A s \in Settings :
        (hist'.op = <<"start_sync", s>> /\ s.sync_mode = "local") =>
            /\ state' = SyncState("disabled", None, None, Some("local"))
            /\ sink' = [state |-> Some(state'), last |-> "sync-state-changed"]
            /\ loops' = loops
            /\ running' = running
            /\ remote' = remote
            /\ remoteSeq' = remoteSeq

\* C6: start with the local-only configuration writes Disabled (no
\* last_synced, no error, the configured mode), emits that snapshot, spawns
\* no task, leaves the flag alone and does not touch the remote
C6_LocalStart == [][C6_Step]_vars

\* C6 witness: a local-only start has returned while a session was running:
\* the status is Disabled, the flag is still set and the one task is alive
C6_Witness ==
    /\ hist.op = <<"start_sync", [sync_mode |-> "local", sync_url |-> "localhost:5984"]>>
    /\ state.status = "disabled"
    /\ running
    /\ Cardinality(LiveLoops) = 1
    /\ sink.state = Some(state)

\* the flag is looked at only at the top of the loop: a task that finds it
\* cleared there returns, and a cycle begins only from there with the flag set
C7_Step ==
    \A i \in DOMAIN loops :
        /\ (loops[i].pc = "loop_top" /\ loops'[i] # loops[i] /\ ~running)
              => loops'[i].pc = "exited"
        /\ (loops[i].pc # "syncing_read" /\ loops'[i].pc = "syncing_read")
              => (loops[i].pc = "loop_top" /\ running)
        /\ (loops[i].pc = "exited") => loops'[i] = loops[i]

\* C7: once the flag is cleared and no start follows, every spawned task
\* eventually returns, and it begins no cycle after a check of the flag
\* that found it cleared
C7_CancelTerminates ==
    /\ [][C7_Step]_vars
    /\ (~running) ~> (LiveLoops = {})

\* C7 witness: after a stop, the task has finished a cycle it had begun and
\* returned at its check of the flag
C7_Witness ==
    /\ hist.stops
    /\ hist.cycles >= 1
    /\ hist.op = <<"L_Top", 1>>
    /\ LiveLoops = {}
    /\ ~running

\* C8: once stop_sync has written its snapshot, and until a start_sync
\* command follows, the status is Paused with no error
C8_StaysPaused ==
    hist.stopped => (state.status = "paused" /\ state.error = None)

\* the existence check and what follows it
C9_Step ==
    /\ \A i \in DOMAIN loops :
        /\ \A o \in EnsureOutcomes :
              hist'.op = <<"L_Ensure", i, o>> =>
                 IF o \in {"created", "exists"}
                 THEN /\ loops'[i].pc = "loop_top"
                      /\ state' = state
                 ELSE /\ state'.status = "error"
                      /\ state'.error = Some(IF o = "transport"
                                             THEN "Connection failed"
                                             ELSE "Failed to create database")
                      /\ sink'.state = Some(state')
                      /\ loops'[i].pc = "clear_running"
        /\ (loops[i].pc = "clear_running" /\ loops'[i] # loops[i])
              => (loops'[i].pc = "exited" /\ ~running')
        /\ (loops[i].pc = "exited") => loops'[i] = loops[i]
    /\ \A s \in Settings :
          (hist'.op = <<"start_sync", s>> /\ s.sync_mode # "local" /\ ~running)
              => (Len(loops') = Len(loops) + 1 /\ running')

\* C9: a failed existence check (anything but 2xx and 412) writes Error with
\* the failure message, the task then clears the flag and returns without a
\* cycle, and a later start spawns a new task; 2xx and 412 take the task to
\* the top of its loop with the status unchanged
C9_ConnectionError == [][C9_Step]_vars

\* C9 witness: the existence check of the first task failed, the task has
\* returned, and a later start has spawned a second task
C9_Witness ==
    /\ hist.op[1] = "start_sync"
    /\ ~hist.stops
    /\ Len(loops) = 2
    /\ loops[1].pc = "exited"
    /\ loops[2].pc = "connecting"
    /\ state.status = "error"
    /\ running

\* a failed cycle and what follows it
C10_Step ==
    \A i \in DOMAIN loops :
        /\ (hist'.op[1] \in {"L_PushGet", "L_PushPut", "L_PullRequest"}
              /\ hist'.op[2] = i
              /\ \/ hist'.op[3] \in {"transport", "parse"}
                 \/ hist'.op[1] = "L_PullRequest" /\ hist'.op[3] = "status")
              => (loops'[i].pc = "err_read" /\ loops'[i].err # None)
        /\ hist'.op = <<"L_ErrWrite", i>> =>
              /\ state'.status = "error"
              /\ state'.error = loops[i].err
              /\ loops[i].err # None
              /\ state'.last_synced = state.last_synced
              /\ running' = running
              /\ loops'[i].pc = "sleep"
        /\ (loops[i].pc = "sleep" /\ loops'[i] # loops[i])
              => loops'[i].pc = "loop_top"

\* C10: a failed cycle writes Error with the failure message and the
\* last_synced the status had, leaves the flag alone and does not end the
\* task: the task sleeps, returns to the top of its loop, and writes Syncing
\* again unless the flag was cleared meanwhile
C10_CycleError ==
    /\ [][C10_Step]_vars
    /\ \A i \in 1..MaxLoops :
          (i \in DOMAIN loops /\ loops[i].pc = "err_write")
              ~> (~running \/ (state.status = "syncing"
                                /\ hist.op = <<"L_SyncingWrite", i>>))

\* C10 witness: after a cycle that succeeded, a cycle has failed: the status
\* is Error with the message and the last_synced of the success, and the
\* flag is still set
C10_Witness ==
    /\ hist.op = <<"L_ErrWrite", 1>>
    /\ state.status = "error"
    /\ state.error # None
    /\ state.last_synced # None
    /\ running
    /\ loops[1].pc = "sleep"


\* C11: the list the push phase walks holds every row of the local table,
\* soft-deleted rows included, so that each of them is fetched and written
C11_PushCoversAll ==
    [][\A i \in DOMAIN loops :
          hist'.op = <<"L_PushList", i>>
              => {loops'[i].queue[k].id : k \in DOMAIN loops'[i].queue} = DOMAIN tasks]_vars

\* C12: whatever the outcome of the fetch or of the write for one task, the
\* push phase goes on to the next task or to the pull phase: no push step
\* ends the cycle
C12_PushIsolated ==
    [][\A i \in DOMAIN loops :
          (hist'.op[1] \in {"L_PushGet", "L_PushPut"} /\ hist'.op[2] = i)
              => loops'[i].pc \in {"push_put", "push_get", "pull_since"}]_vars


\* a PUT answered 409, the ways a cycle can fail, and the write that ends a
\* cycle that did not fail
C13_Step ==
    \A i \in DOMAIN loops :
        /\ hist'.op = <<"L_PushPut", i, "reply", 409>> =>
              /\ loops'[i].queue = Tail(loops[i].queue)
              /\ loops'[i].pc = IF loops'[i].queue = <<>> THEN "pull_since"
                                                         ELSE "push_get"
              /\ loops'[i].err = None
              /\ state' = state
        /\ (loops[i].pc # "err_read" /\ loops'[i].pc = "err_read") =>
              /\ hist'.op[2] = i
              /\ hist'.op[3] \in {"transport", "parse", "status", "db"}
        /\ hist'.op = <<"L_OkWrite", i>> =>
              /\ state'.status = "paused"
              /\ state'.error = None

\* C13: a PUT answered 409 does not fail the push phase or the cycle: the
\* task goes on to its next local task or to the pull phase and the status
\* is untouched; a cycle fails only on a request that was not answered, an
\* unparsable body, a failed feed request or a failed query, and a cycle
\* that did not fail ends in Paused with no error
C13_ConflictSwallowed == [][C13_Step]_vars

\* C13 witness: the first cycle has ended in Paused after one of its PUTs
\* was answered 409
C13_Witness ==
    /\ hist.conflict
    /\ hist.cycles = 1
    /\ hist.op = <<"L_OkWrite", 1>>
    /\ state.status = "paused"
    /\ state.error = None

\* the token a pull that reads the cursor table asks the feed for
StoredSince == IF IsSome(cursor) THEN Unwrap(cursor).last_seq ELSE 0

\* the cursor is written only by the step that ends a successful pull, and
\* that step stores the last_seq of the feed response just applied
C14_Written ==
    /\ cursor' # cursor => \E i \in DOMAIN loops : hist'.op = <<"L_PullSave", i, "saved">>
    /\ \A i \in DOMAIN loops :
          hist'.op = <<"L_PullSave", i, "saved">> =>
              /\ IsSome(cursor')
              /\ Unwrap(cursor').last_seq = Unwrap(loops[i].changes).last_seq

C15_FailedPullAppliesNothing ==
    \A i \in DOMAIN loops :
        ( /\ hist.cycles = 1
          /\ loops[i].pc = "err_read"
          /\ hist.op[1] \in {"L_PullRequest", "L_PullApply", "L_PullSave"}
          /\ hist.op[2] = i )
            => /\ tasks = hist.tasks0
               /\ cursor = None

\* the order values of the rows of `ts` that are not soft-deleted
ActiveOrders(ts) == {ts[j].order : j \in {k \in DOMAIN ts : ~ts[k].deleted}}

C17_Step ==
    hist'.op[1] = "add_task" =>
        LET id == hist'.op[2]
        IN  /\ id \notin DOMAIN tasks
            /\ DOMAIN tasks' = DOMAIN tasks \cup {id}
            /\ \A j \in DOMAIN tasks : tasks'[j] = tasks[j]
            /\ tasks'[id].order = IF ActiveOrders(tasks) = {} THEN 1
                                  ELSE Max(ActiveOrders(tasks)) + 1
            /\ tasks = <<>> => tasks'[id].order = 1
            /\ ~tasks'[id].deleted
            /\ ~tasks'[id].completed
            /\ IsSome(tasks'[id].rev)
            /\ Unwrap(tasks'[id].rev).num = 1

C18_UpdateBumps ==
    [][(hist'.op[1] = "update_task" /\ hist'.op[2].id \in DOMAIN tasks) =>
          LET id == hist'.op[2].id
          IN  /\ RevNum(tasks'[id].rev) = RevNum(tasks[id].rev) + 1
              /\ tasks'[id].updated_at >= tasks[id].updated_at]_vars

\* the ids of the rows in a list a query returned
IdsOf(list) == {list[k].id : k \in DOMAIN list}

C19_Step ==
    (hist'.op[1] = "delete_task" /\ hist'.op[2] \in DOMAIN tasks) =>
        LET id == hist'.op[2]
        IN  /\ DOMAIN tasks' = DOMAIN tasks
            /\ tasks'[id] = [tasks[id] EXCEPT !.deleted = TRUE, !.updated_at = now]
            /\ \A j \in DOMAIN tasks \ {id} : tasks'[j] = tasks[j]
            /\ \A list \in GetAllTasks(tasks') : id \notin IdsOf(list)
            /\ \A ts \in (0 - 1)..(now - 1) :
                  \A list \in GetChangesSince(tasks', ts) :
                      \E k \in DOMAIN list : list[k].id = id /\ list[k].deleted

\* C19: after delete_task of a stored id the row is still stored, with
\* deleted set and updated_at the time of the deletion, and every other
\* row is as it was; no get_all_tasks result holds the id, and every
\* get_changes_since result for a time before the deletion holds the row
\* with deleted set
C19_SoftDelete == [][C19_Step]_vars

\* C19 witness: a task that was listed has been soft-deleted at a time
\* after its last write, next to another stored row
C19_Witness ==
    /\ hist.op[1] = "delete_task"
    /\ hist.op[2] \in DOMAIN hist.pre
    /\ ~hist.pre[hist.op[2]].deleted
    /\ hist.pre[hist.op[2]].updated_at < now
    /\ tasks[hist.op[2]].deleted
    /\ tasks[hist.op[2]].updated_at = now
    /\ DOMAIN tasks # {hist.op[2]}

\* what reorder_task(id, direction) does to the table when its SELECT
\* returned `list` and `id` is at position p of it
C20_Effect(list, p, id, direction) ==
    IF (direction = "up" /\ p = 1) \/ (direction = "down" /\ p = Len(list))
    THEN tasks' = tasks
    ELSE LET nb == list[IF direction = "up" THEN p - 1 ELSE p + 1].id
         IN  /\ DOMAIN tasks' = DOMAIN tasks
             /\ tasks'[id].order = tasks[nb].order
             /\ tasks'[nb].order = tasks[id].order
             /\ \A j \in DOMAIN tasks \ {id, nb} : tasks'[j] = tasks[j]

C20_Step ==
    (hist'.op[1] = "reorder_task" /\ hist'.op[2] \in DOMAIN tasks
                                   /\ ~tasks[hist'.op[2]].deleted) =>
        \E list \in GetAllTasks(tasks) :
            \E p \in DOMAIN list :
                /\ list[p].id = hist'.op[2]
                /\ C20_Effect(list, p, hist'.op[2], hist'.op[3])

\* C20: reorder_task of a listed task exchanges its order with the order of
\* its neighbour in the list of non-deleted tasks by ascending order (the
\* one before it for up, the one after it for down) and leaves every other
\* row as it was; for the first task with up and the last task with down
\* the whole table is unchanged
C20_ReorderSwaps == [][C20_Step]_vars

\* C20 witness: of three listed tasks with orders 1, 2, 3 the middle one was
\* moved up: it now has order 1, the former first has order 2, the third
\* is as it was
C20_Witness ==
    /\ hist.op[1] = "reorder_task"
    /\ hist.op[3] = "up"
    /\ DOMAIN hist.pre = OrderIds
    /\ \A j \in OrderIds : ~hist.pre[j].deleted
    /\ hist.pre[hist.op[2]].order = 2
    /\ \E a, c \in OrderIds \ {hist.op[2]} :
          /\ hist.pre[a].order = 1 /\ hist.pre[c].order = 3
          /\ tasks[hist.op[2]].order = 1
          /\ tasks[a].order = 2
          /\ tasks[c] = hist.pre[c]

\* the batch is applied: a skipped entry leaves the table as it was, and the
\* first pull, once its cursor is saved, has left exactly a soft-deleted row
\* t1 and an active row t2, and the cursor at the batch's last_seq
C16_Applied ==
    \A i \in DOMAIN loops :
        /\ hist'.op = <<"L_PullApply", i, "skip">> =>
              /\ tasks' = tasks
              /\ LET doc == Head(Unwrap(loops[i].changes).results).doc
                 IN  doc = None \/ IsDesign(Unwrap(doc).id)
        /\ (hist'.op = <<"L_PullSave", i, "saved">> /\ hist.cycles = 1) =>
              /\ DOMAIN tasks' = {"t1", "t2"}
              /\ tasks'["t1"].deleted
              /\ ~tasks'["t2"].deleted
              /\ IsSome(cursor')
              /\ Unwrap(cursor').last_seq = Unwrap(loops[i].changes).last_seq

\* C16: a pull whose change feed holds a tombstone entry and a create entry,
\* both with documents and for ids the table does not hold, takes up the
\* batch the remote served, skips the entries without a document and the
\* documents whose id starts with "_design", and leaves exactly one new
\* soft-deleted row and one new active row, and the cursor at the batch's
\* last_seq
C16_PullBatch ==
    [][/\ \A i \in DOMAIN loops :
             hist'.op = <<"L_PullRequest", i, "reply">> => loops'[i].pc = "pull_apply"
       /\ C16_Applied]_vars

\* is `id` a row of `ts` that get_all_tasks lists?
Listed(ts, id) == id \in DOMAIN ts /\ ~ts[id].deleted

C21_Step ==
    hist'.op[1] = "move_task_to_position" =>
        LET a == hist'.op[2]
            b == hist'.op[3]
        IN  (Listed(tasks, a) /\ Listed(tasks, b)) =>
              /\ a = b => tasks' = tasks
              /\ DOMAIN tasks' = DOMAIN tasks
              /\ tasks'[a].order = tasks[b].order
              /\ tasks'[b].order = tasks[a].order
              /\ \A j \in DOMAIN tasks \ {a, b} : tasks'[j] = tasks[j]
              /\ hist.op = hist'.op =>
                    \A j \in DOMAIN tasks : tasks'[j].order = hist.pre[j].order

\* C21: move_task_to_position(a, b) of two listed tasks exchanges exactly
\* their two order values and leaves every other row as it was; a second
\* move_task_to_position(a, b) straight after the first gives every task
\* the order it had before the first; with a = b the table is unchanged
C21_MoveSwaps == [][C21_Step]_vars

\* C21 witness: of three listed tasks with orders 1, 2, 3, the tasks with
\* orders 1 and 3 had been exchanged and the same move has now put every
\* order back, the task with order 2 untouched throughout
C21_Witness ==
    /\ hist.op[1] = "move_task_to_position"
    /\ hist.op[2] # hist.op[3]
    /\ DOMAIN hist.tasks0 = OrderIds
    /\ \A j \in OrderIds : ~hist.tasks0[j].deleted
    /\ hist.tasks0[hist.op[2]].order = 1
    /\ hist.tasks0[hist.op[3]].order = 3
    /\ \A j \in OrderIds \ {hist.op[2], hist.op[3]} :
          /\ hist.tasks0[j].order = 2
          /\ hist.pre[j] = hist.tasks0[j]
          /\ tasks[j] = hist.tasks0[j]
    /\ hist.pre[hist.op[2]].order = 3
    /\ hist.pre[hist.op[3]].order = 1
    /\ \A j \in OrderIds : tasks[j].order = hist.tasks0[j].order

C22_Step ==
    /\ hist'.op = <<"start_sync_err">> =>
          /\ running' = running
          /\ state' = state
          /\ sink' = sink
          /\ loops' = loops
          /\ calls' = calls
    /\ hist'.op[1] = "start_sync" => hist'.op[2].sync_url # ""

Quiescent == LiveLoops = {} /\ calls = <<>>

\* C23: the notifications arrive in the order the snapshots were written:
\* once every writer has come to rest, the snapshot the sink received last
\* is the stored snapshot
C23_SinkAgrees == Quiescent => sink.state = Some(state)

\* C24: the running flag is polled between the phases of a cycle: when
\* stop_sync has cleared the flag while the push phase of a cycle was in
\* progress, the task does not go on to the pull phase of that cycle
C24_NoPullAfterStop ==
    [][\A i \in DOMAIN loops :
          ( /\ loops[i].pc \in {"push_list", "push_get", "push_put"}
            /\ loops'[i].pc = "pull_since" ) => ~hist.pushStop]_vars

C25_Step ==
    hist'.op[1] = "toggle_write" =>
        \E k \in DOMAIN pending :
            LET read == pending[k]
            IN  /\ pending' = RemoveAt(pending, k)
                /\ tasks'[read.id].completed = ~read.completed
                /\ tasks'[read.id].title = read.title
                /\ tasks'[read.id].order = read.order
                /\ tasks[read.id] = read =>
                      tasks'[read.id].completed = ~tasks[read.id].completed

\* C25: toggle_task_completion writes the flipped value of the row it read
\* under its first lock, whatever the row holds when the write runs; when
\* nothing was written between its read and its write, completed is
\* flipped exactly once
C25_ToggleNotAtomic == [][C25_Step]_vars

\* C25 witness: two toggles of the same task both read it not completed;
\* the first has stored completed, and the write of the second has now
\* stored completed again: both calls have returned and completed has
\* been flipped once
C25_Witness ==
    /\ hist.op[1] = "toggle_write"
    /\ pending = <<>>
    /\ LET id == hist.op[2].id
       IN  /\ ~hist.tasks0[id].completed
           /\ hist.pre[id].completed
           /\ RevNum(hist.pre[id].rev) = RevNum(hist.tasks0[id].rev) + 1
           /\ tasks[id].completed
           /\ RevNum(tasks[id].rev) = RevNum(hist.tasks0[id].rev) + 1

C26_Step ==
    /\ \A i \in DOMAIN loops :
          /\ hist'.op = <<"L_Connecting", i>> =>
                /\ state'.status = "connecting"
                /\ hist.cycles = 0
          /\ (hist'.op = <<"L_SyncingWrite", i>> /\ hist.cycles = 0) =>
                state.status = "connecting"
          /\ (loops[i].pc # "push_list" /\ loops'[i].pc = "push_list") =>
                /\ hist'.op = <<"L_SyncingWrite", i>>
                /\ state'.status = "syncing"
                /\ state'.error = None
          /\ (loops[i].pc # "ok_write" /\ loops'[i].pc = "ok_write") =>
                hist'.op = <<"L_PullSave", i, "saved">>
          /\ loops[i].pc = "ok_write" =>
                /\ hist'.op = <<"L_OkWrite", i>>
                /\ state' = SyncState("paused", Some(now), None,
                                      Some(loops[i].sync_mode))
                /\ sink' = [state |-> Some(state'), last |-> "tasks-changed"]
          /\ hist'.op = <<"L_ErrWrite", i>> =>
                /\ state'.status = "error"
                /\ sink' = [state |-> Some(state'), last |-> "sync-state-changed"]
    /\ (sink' # sink /\ sink'.last = "tasks-changed") => hist'.op[1] = "L_OkWrite"

\* C26: the spawned task writes Connecting before its first Syncing, enters
\* every cycle by writing Syncing, and ends every cycle whose push and pull
\* both returned Ok by writing Paused with last_synced the current time
\* and no error, followed by the data-changed notification; no other step,
\* and so no failed cycle, delivers a data-changed notification
C26_CycleStatuses == [][C26_Step]_vars

\* C26 witness: the second cycle of a session has ended in Paused with
\* last_synced the current time, and the sink has received the snapshot
\* and then the data-changed notification
C26_Witness ==
    /\ hist.cycles = 2
    /\ hist.op = <<"L_OkWrite", 1>>
    /\ state = SyncState("paused", Some(now), None, Some("selfhosted"))
    /\ sink = [state |-> Some(state), last |-> "tasks-changed"]

\* the labels of the steps that write a row on behalf of the user
LocalMutations ==
    {"update_task", "toggle_write", "delete_task", "reorder_task",
     "move_task_to_position"}

\* C27: every update, toggle, soft delete, reorder and move that changes a
\* stored row leaves that row with a revision counter strictly greater
\* than the one it had
C27_RevGrows ==
    [][hist'.op[1] \in LocalMutations =>
          \A j \in DOMAIN tasks :
              tasks'[j] # tasks[j] => RevNum(tasks'[j].rev) > RevNum(tasks[j].rev)]_vars

\* C28: the status of the snapshot is always one of disabled, connecting,
\* syncing, paused, error (never idle), it is disabled before the first
\* command, and the snapshot carries a non-empty error message exactly
\* when its status is error
C28_SnapshotInv ==
    /\ state.status \in {"disabled", "connecting", "syncing", "paused", "error"}
    /\ hist.op = <<"init">> => state.status = "disabled"
    /\ state.status = "error" <=> IsSome(state.error)
    /\ IsSome(state.error) => Unwrap(state.error) # ""

\* C28 witness: a cycle of a running session has failed and the snapshot
\* is Error with its message
C28_Witness ==
    /\ hist.op[1] = "L_ErrWrite"
    /\ state.status = "error"
    /\ IsSome(state.error)
    /\ Unwrap(state.error) # ""
    /\ running

\* C29: whenever the status of the snapshot is connecting or syncing and no
\* command is still on its way to write the snapshot, a spawned task is
\* alive: the engine does not come to rest in one of these two statuses
\* with no task left to write a later one
C29_BusyHasLoop ==
    (state.status \in {"connecting", "syncing"} /\ calls = <<>>) => LiveLoops # {}

\* C30: while the status of the snapshot is disabled no spawned task is
\* cycling: after a start with a local-only configuration has written
\* Disabled during a running session, no task begins a cycle or ends one,
\* writing Syncing, Paused or Error over it
C30_DisabledIsIdle ==
    [][state.status = "disabled" =>
          hist'.op[1] \notin {"L_SyncingWrite", "L_OkWrite", "L_ErrWrite"}]_vars

\* last_synced b keeps what last_synced a holds: it is not emptied and not
\* an earlier instant
KeepsLastSynced(a, b) ==
    IsSome(a) => (IsSome(b) /\ Unwrap(b) >= Unwrap(a))

\* C31: stop_sync and the Syncing write of the loop preserve last_synced:
\* the snapshot either of them writes holds a last_synced that is neither
\* emptied nor older than the last_synced stored just before the write,
\* under every interleaving with the write that ends a cycle
C31_LastSyncedKept ==
    [][hist'.op[1] \in {"StopWrite", "L_SyncingWrite"} =>
          KeepsLastSynced(state.last_synced, state'.last_synced)]_vars

\* the columns toggle_task_completion is not meant to change
KeptByToggle(r) == <<r.title, r.description, r.due_date, r.order, r.deleted>>

\* C32: toggle_task_completion changes only completed, rev and updated_at
\* of the row: after its write the title, description, due_date, order and
\* deleted stored are the ones stored just before the write, whatever ran
\* on the same id between its read and its write
C32_ToggleFrame ==
    [][hist'.op[1] = "toggle_write" =>
          \A id \in DOMAIN tasks :
             KeptByToggle(tasks'[id]) = KeptByToggle(tasks[id])]_vars

\* the rows get_all_tasks lists
Live(ts) == {i \in DOMAIN ts : ~ts[i].deleted}

\* C33: from the empty table, after any sequence of add_task, delete_task,
\* toggle_task_completion, reorder_task and move_task_to_position, no two
\* listed rows hold the same order, and get_all_tasks has exactly one
\* ascending listing of them
C33_DistinctOrders ==
    /\ \A a, b \in Live(tasks) : a # b => tasks[a].order # tasks[b].order
    /\ Cardinality(GetAllTasks(tasks)) = 1

====
